---- MODULE Spec2Model ----
(***************************************************************************)
(* Model of the normalization and feature-extraction engine of the job     *)
(* market pipeline: src/features/extract_features.py (text normalizer,     *)
(* skill matcher, role/seniority classifiers, years extractor) and         *)
(* src/processing/clean_transform.py (location parser, cleaning step),     *)
(* fed by src/ingestion/fetch_jobs.py and src/ingestion/fresh_sweep.py.    *)
(*                                                                         *)
(* A Python str is a sequence of one-character strings, so that lower(),   *)
(* substring tests, split(), strip() and the regular expressions are       *)
(* computed character by character.  An optional value is None or Some(v). *)
(***************************************************************************)
EXTENDS Integers, Sequences, FiniteSets, TLC

VARIABLES
  fn,                 \* the function applied to arg ("none" before the call)
  arg,                \* its argument
  ret,                \* its return value
  skills_cfg,         \* parsed content of config/skills.yml
  load,               \* module import of extract_features: "init", "loaded", "error"
  compiled,           \* extract_features.compiled
  raw_job_postings,   \* table raw_job_postings, keyed by job_id
  job_postings_clean, \* table job_postings_clean, keyed by job_id
  pc,                 \* position of clean_transform.main
  raw_rows,           \* clean_transform.main: raw_rows
  cleaned,            \* clean_transform.main: cleaned
  job_postings_features, \* table job_postings_features, keyed by job_id
  fpc,                \* position of extract_features.main
  rows,               \* extract_features.main: rows
  out,                \* extract_features.main: out
  extracted_at,       \* extract_features.main: extracted_at, the number of the run
  last_done           \* extracted_at of the last run that printed [DONE]

vars == <<fn, arg, ret, skills_cfg, load, compiled,
          raw_job_postings, job_postings_clean, pc, raw_rows, cleaned,
          job_postings_features, fpc, rows, out, extracted_at, last_done>>
callVars == <<fn, arg, ret>>
skillVars == <<skills_cfg, load, compiled>>
cleanVars == <<raw_job_postings, job_postings_clean, pc, raw_rows, cleaned>>
featVars == <<job_postings_features, fpc, rows, out, extracted_at, last_done>>

----------------------------------------------------------------------------
(* Python values *)

None == [some |-> FALSE, v |-> <<>>]
Some(x) == [some |-> TRUE, v |-> x]

\* bool(s) of an optional str: None and "" are falsy
Truthy(s) == s.some /\ s.v # <<>>

\* (s or "")
OrEmpty(s) == IF Truthy(s) THEN s.v ELSE <<>>

----------------------------------------------------------------------------
(* Characters *)

UpperChars == <<"A","B","C","D","E","F","G","H","I","J","K","L","M","N","O","P","Q","R","S","T","U","V","W","X","Y","Z">>
LowerChars == <<"a","b","c","d","e","f","g","h","i","j","k","l","m","n","o","p","q","r","s","t","u","v","w","x","y","z">>
DigitChars == <<"0","1","2","3","4","5","6","7","8","9">>

Range(s) == {s[i] : i \in DOMAIN s}

\* \w of the re module
IsWordChar(c) == c \in Range(UpperChars) \cup Range(LowerChars) \cup Range(DigitChars) \cup {"_"}

\* \s of the re module, and the characters str.strip() and str.split() drop
IsSpaceChar(c) == c \in {" ", "\t", "\n", "\r", "\f"}

IsDigit(c) == c \in Range(DigitChars)

\* str.lower() on one character
LowerChar(c) ==
  IF \E i \in DOMAIN UpperChars : UpperChars[i] = c
    THEN LowerChars[CHOOSE i \in DOMAIN UpperChars : UpperChars[i] = c]
    ELSE c

\* str.lower()
Lower(s) == [i \in DOMAIN s |-> LowerChar(s[i])]

\* int() of a string of decimal digits
DigitValue(c) == (CHOOSE i \in DOMAIN DigitChars : DigitChars[i] = c) - 1

RECURSIVE ParseInt(_)
ParseInt(s) ==
  IF s = <<>> THEN 0
  ELSE 10 * ParseInt(SubSeq(s, 1, Len(s) - 1)) + DigitValue(s[Len(s)])

----------------------------------------------------------------------------
(* str operations *)

\* s[i:j] with 1-based inclusive bounds, empty when i > j
Slice(s, i, j) == IF i > j THEN <<>> ELSE SubSeq(s, i, j)

\* whether kw occurs in t starting at index i
OccursAt(t, kw, i) == i >= 1 /\ i + Len(kw) - 1 <= Len(t) /\ Slice(t, i, i + Len(kw) - 1) = kw

\* kw in t
Contains(t, kw) == \E i \in 1..(Len(t) + 1) : OccursAt(t, kw, i)

\* str.strip()
RECURSIVE LStrip(_)
LStrip(s) == IF s # <<>> /\ IsSpaceChar(Head(s)) THEN LStrip(Tail(s)) ELSE s

RECURSIVE RStrip(_)
RStrip(s) ==
  IF s # <<>> /\ IsSpaceChar(s[Len(s)]) THEN RStrip(SubSeq(s, 1, Len(s) - 1)) ELSE s

Strip(s) == RStrip(LStrip(s))

\* str.split(sep) for a one-character sep: the fields between the separators
RECURSIVE SplitOn(_, _)
SplitOn(s, sep) ==
  IF \E i \in DOMAIN s : s[i] = sep
    THEN LET i == CHOOSE k \in DOMAIN s : s[k] = sep /\ \A m \in 1..(k - 1) : s[m] # sep
         IN  <<Slice(s, 1, i - 1)>> \o SplitOn(Slice(s, i + 1, Len(s)), sep)
    ELSE <<s>>

\* str.split(): the maximal runs of non-whitespace characters
RECURSIVE SplitWS(_)
SplitWS(s) ==
  LET t == LStrip(s) IN
  IF t = <<>> THEN <<>>
  ELSE IF \E i \in DOMAIN t : IsSpaceChar(t[i])
    THEN LET i == CHOOSE k \in DOMAIN t : IsSpaceChar(t[k]) /\ \A m \in 1..(k - 1) : ~IsSpaceChar(t[m])
         IN  <<Slice(t, 1, i - 1)>> \o SplitWS(Slice(t, i + 1, Len(t)))
    ELSE <<t>>

\* sep.join(parts)
RECURSIVE Join(_, _)
Join(parts, sep) ==
  IF parts = <<>> THEN <<>>
  ELSE IF Len(parts) = 1 THEN parts[1]
  ELSE parts[1] \o sep \o Join(Tail(parts), sep)

\* [f(x) for x in xs if keep(x)] building blocks
RECURSIVE SelectSeqIdx(_, _)
SelectSeqIdx(s, keep) ==
  IF s = <<>> THEN <<>>
  ELSE (IF keep[1] THEN <<s[1]>> ELSE <<>>)
       \o SelectSeqIdx(Tail(s), [i \in 1..(Len(s) - 1) |-> keep[i + 1]])

\* regex \b at the position after the first k characters of t
WordBoundary(t, k) ==
  (k >= 1 /\ k <= Len(t) /\ IsWordChar(t[k])) # (k + 1 >= 1 /\ k + 1 <= Len(t) /\ IsWordChar(t[k + 1]))

\* re.search(r"\bkw\b", t)
SearchWord(t, kw) ==
  \E i \in 1..(Len(t) + 1) :
    OccursAt(t, kw, i) /\ WordBoundary(t, i - 1) /\ WordBoundary(t, i + Len(kw) - 1)

----------------------------------------------------------------------------
(* extract_features.normalize_text *)

\* re.sub(r"[/,_\-|]", " ", s)
SubSeparators(s) == [i \in DOMAIN s |-> IF s[i] \in {"/", ",", "_", "-", "|"} THEN " " ELSE s[i]]

\* re.sub(r"[^\w\s\+]", " ", s)
SubPunctuation(s) ==
  [i \in DOMAIN s |-> IF IsWordChar(s[i]) \/ IsSpaceChar(s[i]) \/ s[i] = "+" THEN s[i] ELSE " "]

\* re.sub(r"\s+", " ", s)
RECURSIVE CollapseSpaces(_)
CollapseSpaces(s) ==
  IF s = <<>> THEN <<>>
  ELSE IF IsSpaceChar(Head(s))
    THEN <<" ">> \o CollapseSpaces(LStrip(s))
    ELSE <<Head(s)>> \o CollapseSpaces(Tail(s))

normalize_text_unordered(s) ==
  IF ~Truthy(s) THEN <<>>
  ELSE Strip(SubPunctuation(SubSeparators(CollapseSpaces(Lower(s.v)))))

normalize_text_glued(s) ==
  IF ~Truthy(s) THEN <<>>
  ELSE Strip(CollapseSpaces(SelectSeqIdx(SubSeparators(Lower(s.v)),
         [i \in DOMAIN s.v |->
            LET c == SubSeparators(Lower(s.v))[i]
            IN  IsWordChar(c) \/ IsSpaceChar(c) \/ c = "+"])))

normalize_text(s) ==
  IF ~Truthy(s) THEN <<>>
  ELSE Strip(CollapseSpaces(SubPunctuation(SubSeparators(Lower(s.v)))))

----------------------------------------------------------------------------
(* extract_features.classify_role_family, infer_seniority *)

classify_role_family_substring(title) ==
  LET t == Lower(OrEmpty(title)) IN
  IF Contains(t, <<"d","a","t","a"," ","e","n","g","i","n","e","e","r">>) \/ Contains(t, <<"e","t","l">>) \/ Contains(t, <<"p","i","p","e","l","i","n","e">>)
    THEN "Data Engineering"
  ELSE IF Contains(t, <<"d","a","t","a"," ","s","c","i","e","n","t","i","s","t">>) \/ Contains(t, <<"m","a","c","h","i","n","e"," ","l","e","a","r","n","i","n","g">>)
          \/ Contains(t, <<"m","l">>)
    THEN "Data Science"
  ELSE IF Contains(t, <<"b","u","s","i","n","e","s","s"," ","i","n","t","e","l","l","i","g","e","n","c","e">>) \/ Contains(t, <<"p","o","w","e","r"," ","b","i">>)
          \/ Contains(t, <<"t","a","b","l","e","a","u">>) \/ Contains(t, <<"b","i">>)
    THEN "Business Intelligence"
  ELSE IF Contains(t, <<"a","n","a","l","y","s","t">>) \/ Contains(t, <<"a","n","a","l","y","t","i","c","s">>)
    THEN "Analytics"
  ELSE "Other"

classify_role_family(title) ==
  LET t == Lower(OrEmpty(title)) IN
  IF Contains(t, <<"d","a","t","a"," ","e","n","g","i","n","e","e","r">>) \/ Contains(t, <<"e","t","l">>) \/ Contains(t, <<"p","i","p","e","l","i","n","e">>)
    THEN "Data Engineering"
  ELSE IF Contains(t, <<"d","a","t","a"," ","s","c","i","e","n","t","i","s","t">>) \/ Contains(t, <<"m","a","c","h","i","n","e"," ","l","e","a","r","n","i","n","g">>)
          \/ SearchWord(t, <<"m","l">>)
    THEN "Data Science"
  ELSE IF Contains(t, <<"b","u","s","i","n","e","s","s"," ","i","n","t","e","l","l","i","g","e","n","c","e">>) \/ Contains(t, <<"p","o","w","e","r"," ","b","i">>)
          \/ Contains(t, <<"t","a","b","l","e","a","u">>) \/ SearchWord(t, <<"b","i">>)
    THEN "Business Intelligence"
  ELSE IF Contains(t, <<"a","n","a","l","y","s","t">>) \/ Contains(t, <<"a","n","a","l","y","t","i","c","s">>)
    THEN "Analytics"
  ELSE "Other"

\* any(x in t for x in kws)
AnyIn(t, kws) == \E i \in DOMAIN kws : Contains(t, kws[i])

infer_seniority_senior_first(title) ==
  LET t == Lower(OrEmpty(title)) IN
  IF AnyIn(t, <<<<"p","r","i","n","c","i","p","a","l">>, <<"s","t","a","f","f">>, <<"l","e","a","d">>, <<"s","e","n","i","o","r">>, <<"s","r",".">>, <<"s","r"," ">>>>)
    THEN "Senior"
  ELSE IF AnyIn(t, <<<<"i","n","t","e","r","n">>, <<"c","o","-","o","p">>, <<"s","t","u","d","e","n","t">>>>)
    THEN "Intern"
  ELSE IF AnyIn(t, <<<<"d","i","r","e","c","t","o","r">>, <<"h","e","a","d">>, <<"v","p">>, <<"v","i","c","e"," ","p","r","e","s","i","d","e","n","t">>, <<"m","a","n","a","g","e","r">>>>)
    THEN "Management"
  ELSE IF AnyIn(t, <<<<"j","u","n","i","o","r">>, <<"j","r",".">>, <<"e","n","t","r","y">>, <<"a","s","s","o","c","i","a","t","e">>, <<"n","e","w"," ","g","r","a","d">>>>)
    THEN "Entry"
  ELSE "Mid"

infer_seniority(title) ==
  LET t == Lower(OrEmpty(title)) IN
  IF AnyIn(t, <<<<"i","n","t","e","r","n">>, <<"c","o","-","o","p">>, <<"s","t","u","d","e","n","t">>>>)
    THEN "Intern"
  ELSE IF AnyIn(t, <<<<"d","i","r","e","c","t","o","r">>, <<"h","e","a","d">>, <<"v","p">>, <<"v","i","c","e"," ","p","r","e","s","i","d","e","n","t">>, <<"m","a","n","a","g","e","r">>>>)
    THEN "Management"
  ELSE IF AnyIn(t, <<<<"p","r","i","n","c","i","p","a","l">>, <<"s","t","a","f","f">>, <<"l","e","a","d">>, <<"s","e","n","i","o","r">>, <<"s","r",".">>, <<"s","r"," ">>>>)
    THEN "Senior"
  ELSE IF AnyIn(t, <<<<"j","u","n","i","o","r">>, <<"j","r",".">>, <<"e","n","t","r","y">>, <<"a","s","s","o","c","i","a","t","e">>, <<"n","e","w"," ","g","r","a","d">>>>)
    THEN "Entry"
  ELSE "Mid"

----------------------------------------------------------------------------
(* extract_features.infer_remote, baseline_skills_for_role *)

remote_signals ==
  <<<<"r","e","m","o","t","e">>, <<"w","o","r","k"," ","f","r","o","m"," ","h","o","m","e">>, <<"w","f","h">>, <<"t","e","l","e","c","o","m","m","u","t","e">>, <<"f","u","l","l","y"," ","r","e","m","o","t","e">>, <<"1","0","0","%"," ","r","e","m","o","t","e">>, <<"a","n","y","w","h","e","r","e">>>>

infer_remote(text_blob) == AnyIn(Lower(OrEmpty(text_blob)), remote_signals)

\* the role families, as the strings classify_role_family returns
RoleFamilyName ==
  [r \in {"Analytics", "Business Intelligence", "Data Engineering", "Data Science", "Other"} |->
     CASE r = "Analytics" -> <<"A","n","a","l","y","t","i","c","s">>
       [] r = "Business Intelligence" -> <<"B","u","s","i","n","e","s","s"," ","I","n","t","e","l","l","i","g","e","n","c","e">>
       [] r = "Data Engineering" -> <<"D","a","t","a"," ","E","n","g","i","n","e","e","r","i","n","g">>
       [] r = "Data Science" -> <<"D","a","t","a"," ","S","c","i","e","n","c","e">>
       [] r = "Other" -> <<"O","t","h","e","r">>]

\* mapping of baseline_skills_for_role, as (key, value) pairs
BaselineMapping ==
  << <<<<"A","n","a","l","y","t","i","c","s">>, <<<<"s","q","l">>, <<"e","x","c","e","l">>>>>>,
     <<<<"B","u","s","i","n","e","s","s"," ","I","n","t","e","l","l","i","g","e","n","c","e">>, <<<<"s","q","l">>, <<"p","o","w","e","r"," ","b","i">>, <<"t","a","b","l","e","a","u">>>>>>,
     <<<<"D","a","t","a"," ","E","n","g","i","n","e","e","r","i","n","g">>, <<<<"s","q","l">>, <<"p","y","t","h","o","n">>, <<"e","t","l">>, <<"c","l","o","u","d">>>>>>,
     <<<<"D","a","t","a"," ","S","c","i","e","n","c","e">>, <<<<"p","y","t","h","o","n">>, <<"s","t","a","t","i","s","t","i","c","s">>, <<"m","a","c","h","i","n","e"," ","l","e","a","r","n","i","n","g">>>>>>,
     <<<<"O","t","h","e","r">>, <<>>>> >>

baseline_skills_for_role(role_family) ==
  LET role == Strip(IF Truthy(role_family) THEN role_family.v ELSE <<"O","t","h","e","r">>) IN
  IF \E i \in DOMAIN BaselineMapping : BaselineMapping[i][1] = role
    THEN BaselineMapping[CHOOSE i \in DOMAIN BaselineMapping : BaselineMapping[i][1] = role][2]
    ELSE <<>>

----------------------------------------------------------------------------
(* extract_features.extract_years_experience *)

\* greedy \s*: the first index at or after i that holds no whitespace
RECURSIVE SkipSpaces(_, _)
SkipSpaces(t, i) == IF i <= Len(t) /\ IsSpaceChar(t[i]) THEN SkipSpaces(t, i + 1) ELSE i

\* \d{d} at i
DigitsAt(t, i, d) == i >= 1 /\ i + d - 1 <= Len(t) /\ \A k \in i..(i + d - 1) : IsDigit(t[k])

\* (?:years|yrs) at i: the index after the unit, 0 when neither alternative matches
UnitEnd(t, i) ==
  IF OccursAt(t, <<"y","e","a","r","s">>, i) THEN i + 5
  ELSE IF OccursAt(t, <<"y","r","s">>, i) THEN i + 3
  ELSE 0

NoMatch == [ok |-> FALSE, val |-> 0, end |-> 0]
Match(digits, e) == [ok |-> TRUE, val |-> ParseInt(digits), end |-> e]

\* (\d{d})\s*\+\s*(?:years|yrs)\b at i
Pattern1(t, i, d) ==
  LET j == SkipSpaces(t, i + d)
      e == UnitEnd(t, SkipSpaces(t, j + 1))
  IN  IF DigitsAt(t, i, d) /\ j <= Len(t) /\ t[j] = "+" /\ e # 0 /\ WordBoundary(t, e - 1)
        THEN Match(Slice(t, i, i + d - 1), e)
        ELSE NoMatch

\* lead\s+(\d{d})\s*(?:years|yrs)\b, after the literal lead, whose end is i - 1
AfterLead(t, i, d) ==
  LET n == SkipSpaces(t, i)
      e == UnitEnd(t, SkipSpaces(t, n + d))
  IN  IF n > i /\ DigitsAt(t, n, d) /\ e # 0 /\ WordBoundary(t, e - 1)
        THEN Match(Slice(t, n, n + d - 1), e)
        ELSE NoMatch

\* minimum\s+(\d{d})\s*(?:years|yrs)\b at i
Pattern2(t, i, d) ==
  IF OccursAt(t, <<"m","i","n","i","m","u","m">>, i) THEN AfterLead(t, i + 7, d) ELSE NoMatch

\* at\s+least\s+(\d{d})\s*(?:years|yrs)\b at i
Pattern3(t, i, d) ==
  LET l == SkipSpaces(t, i + 2) IN
  IF OccursAt(t, <<"a","t">>, i) /\ l > i + 2 /\ OccursAt(t, <<"l","e","a","s","t">>, l)
    THEN AfterLead(t, l + 5, d)
    ELSE NoMatch

\* (\d{d})\s*(?:years|yrs)\s+of\s+experience at i
Pattern4(t, i, d) ==
  LET e == UnitEnd(t, SkipSpaces(t, i + d))
      o == SkipSpaces(t, e)
      x == SkipSpaces(t, o + 2)
  IN  IF /\ DigitsAt(t, i, d) /\ e # 0
         /\ o > e /\ OccursAt(t, <<"o","f">>, o)
         /\ x > o + 2 /\ OccursAt(t, <<"e","x","p","e","r","i","e","n","c","e">>, x)
        THEN Match(Slice(t, i, i + d - 1), x + 10)
        ELSE NoMatch

PatternAt(p, t, i, d) ==
  CASE p = 1 -> Pattern1(t, i, d)
    [] p = 2 -> Pattern2(t, i, d)
    [] p = 3 -> Pattern3(t, i, d)
    [] p = 4 -> Pattern4(t, i, d)

\* one match attempt at i: \d{1,2} is greedy, two digits are tried before one
MatchAt(p, t, i) ==
  IF PatternAt(p, t, i, 2).ok THEN PatternAt(p, t, i, 2) ELSE PatternAt(p, t, i, 1)

\* [int(m.group(1)) for m in re.finditer(p, t)]: leftmost matches, not overlapping
RECURSIVE FindIter(_, _, _)
FindIter(p, t, i) ==
  IF i > Len(t) THEN <<>>
  ELSE LET m == MatchAt(p, t, i) IN
       IF m.ok THEN <<m.val>> \o FindIter(p, t, m.end) ELSE FindIter(p, t, i + 1)

Hits(t) == FindIter(1, t, 1) \o FindIter(2, t, 1) \o FindIter(3, t, 1) \o FindIter(4, t, 1)

MinOf(s) == CHOOSE x \in Range(s) : \A y \in Range(s) : x <= y
MaxOf(s) == CHOOSE x \in Range(s) : \A y \in Range(s) : x >= y

extract_years_experience_max(text_blob) ==
  LET hits == Hits(normalize_text(Some(OrEmpty(text_blob))))
  IN  IF hits # <<>> THEN Some(MaxOf(hits)) ELSE None

\* Decimal(min(hits)) if hits else None; the Decimal of an int is that integer
extract_years_experience(text_blob) ==
  LET hits == Hits(normalize_text(Some(OrEmpty(text_blob))))
  IN  IF hits # <<>> THEN Some(MinOf(hits)) ELSE None

----------------------------------------------------------------------------
(* extract_features: skills.yml, compiled, extract_skills *)

\* a YAML value of the skills mapping: a list of alias strings, or null
AliasList(items) == [kind |-> "list", items |-> items]
NoAliases == [kind |-> "null", items |-> <<>>]

\* a single string in place of the list: iterating it gives its characters
AliasString(a) == [kind |-> "str", items |-> [i \in DOMAIN a |-> <<a[i]>>]]

\* a number in place of the list, by its decimal digits
AliasNumber(digits) == [kind |-> "int", items |-> <<digits>>]

\* one entry of the skills mapping
Skill(canonical, aliases) == [canonical |-> canonical, aliases |-> aliases]

\* skills_cfg.get("skills", {}): a dict, in definition order
SkillsDict(entries) == [kind |-> "dict", items |-> entries]

\* the element of a pattern that stands for \s+
Whitespaces == "\\s+"

\* re.escape(a).replace(r"\ ", r"\s+"): every character literal, a space as \s+
AliasPattern(a) == [i \in DOMAIN a |-> IF a[i] = " " THEN Whitespaces ELSE a[i]]

\* [str(a).strip().lower() for a in aliases if str(a).strip()]
RECURSIVE CleanAliases(_)
CleanAliases(aliases) ==
  IF aliases = <<>> THEN <<>>
  ELSE (IF Strip(Head(aliases)) # <<>> THEN <<Lower(Strip(Head(aliases)))>> ELSE <<>>)
       \o CleanAliases(Tail(aliases))

\* not aliases: None, an empty list, an empty string, the number 0
NoAliasGiven(aliases) ==
  \/ aliases.kind = "null"
  \/ aliases.kind \in {"list", "str"} /\ aliases.items = <<>>
  \/ aliases.kind = "int" /\ aliases.items = <<<<"0">>>>

\* line 40, for a in aliases: a number that is not 0 cannot be iterated, TypeError
CompileRaises(entries) ==
  \E i \in DOMAIN entries :
    entries[i].aliases.kind = "int" /\ ~NoAliasGiven(entries[i].aliases)

Matcher(canonical, aliases) ==
  [ canonical |-> Lower(Strip(canonical)),
    rx |-> [i \in DOMAIN CleanAliases(aliases.items) |-> AliasPattern(CleanAliases(aliases.items)[i])] ]

\* lines 35-46: one (canonical_norm, rx) per entry whose alias list is not falsy
RECURSIVE Compile(_)
Compile(entries) ==
  IF entries = <<>> THEN <<>>
  ELSE (IF NoAliasGiven(Head(entries).aliases) THEN <<>>
        ELSE <<Matcher(Head(entries).canonical, Head(entries).aliases)>>)
       \o Compile(Tail(entries))

\* the indices after a match of pat that starts at i, (?i) in force
RECURSIVE MatchEnds(_, _, _)
MatchEnds(pat, t, i) ==
  IF pat = <<>> THEN {i}
  ELSE IF Head(pat) = Whitespaces
    THEN UNION {MatchEnds(Tail(pat), t, k) :
                  k \in {m \in (i + 1)..(Len(t) + 1) : \A n \in i..(m - 1) : IsSpaceChar(t[n])}}
  ELSE IF i <= Len(t) /\ LowerChar(t[i]) = LowerChar(Head(pat))
    THEN MatchEnds(Tail(pat), t, i + 1)
  ELSE {}

\* the alternatives of the group: "|".join([]) is the empty pattern
Alternatives(rx) == IF rx = <<>> THEN {<<>>} ELSE Range(rx)

\* rx.search(t) for rx = (?i)(?<!\w)(alt1|alt2|...)(?!\w)
Search(rx, t) ==
  \E i \in 1..(Len(t) + 1) :
    /\ i = 1 \/ ~IsWordChar(t[i - 1])
    /\ \E pat \in Alternatives(rx) : \E e \in MatchEnds(pat, t, i) :
         e > Len(t) \/ ~IsWordChar(t[e])

\* found[:10]
TopSkills == 10

RECURSIVE Found(_, _)
Found(matchers, t) ==
  IF matchers = <<>> THEN <<>>
  ELSE (IF Search(Head(matchers).rx, t) THEN <<Head(matchers).canonical>> ELSE <<>>)
       \o Found(Tail(matchers), t)

extract_skills(matchers, text_blob) ==
  LET found == Found(matchers, normalize_text(Some(OrEmpty(text_blob))))
  IN  [found |-> found, top |-> Slice(found, 1, IF Len(found) < TopSkills THEN Len(found) ELSE TopSkills)]

----------------------------------------------------------------------------
(* clean_transform.clean_text *)

\* the index of the first ">" of s at or after i, Len(s) + 1 if there is none
RECURSIVE NextClose(_, _)
NextClose(s, i) ==
  IF i > Len(s) THEN Len(s) + 1
  ELSE IF s[i] = ">" THEN i
  ELSE NextClose(s, i + 1)

\* re.sub(r"<[^>]+>", " ", s) from index i on: a tag is "<", one or more
\* characters other than ">", then ">"
RECURSIVE SubTags(_, _)
SubTags(s, i) ==
  IF i > Len(s) THEN <<>>
  ELSE IF s[i] = "<" /\ NextClose(s, i + 1) <= Len(s) /\ NextClose(s, i + 1) > i + 1
    THEN <<" ">> \o SubTags(s, NextClose(s, i + 1) + 1)
  ELSE <<s[i]>> \o SubTags(s, i + 1)

clean_text(html_text) ==
  IF ~Truthy(html_text) THEN None
  ELSE Some(Strip(CollapseSpaces(SubTags(html_text.v, 1))))

----------------------------------------------------------------------------
(* clean_transform: the state table, parse_city_state, the cleaning step *)

\* US_STATES: <<abbreviation, full name>>
US_STATES ==
  << <<<<"A","L">>, <<"A","l","a","b","a","m","a">>>>,
     <<<<"A","K">>, <<"A","l","a","s","k","a">>>>,
     <<<<"A","Z">>, <<"A","r","i","z","o","n","a">>>>,
     <<<<"A","R">>, <<"A","r","k","a","n","s","a","s">>>>,
     <<<<"C","A">>, <<"C","a","l","i","f","o","r","n","i","a">>>>,
     <<<<"C","O">>, <<"C","o","l","o","r","a","d","o">>>>,
     <<<<"C","T">>, <<"C","o","n","n","e","c","t","i","c","u","t">>>>,
     <<<<"D","E">>, <<"D","e","l","a","w","a","r","e">>>>,
     <<<<"F","L">>, <<"F","l","o","r","i","d","a">>>>,
     <<<<"G","A">>, <<"G","e","o","r","g","i","a">>>>,
     <<<<"H","I">>, <<"H","a","w","a","i","i">>>>,
     <<<<"I","D">>, <<"I","d","a","h","o">>>>,
     <<<<"I","L">>, <<"I","l","l","i","n","o","i","s">>>>,
     <<<<"I","N">>, <<"I","n","d","i","a","n","a">>>>,
     <<<<"I","A">>, <<"I","o","w","a">>>>,
     <<<<"K","S">>, <<"K","a","n","s","a","s">>>>,
     <<<<"K","Y">>, <<"K","e","n","t","u","c","k","y">>>>,
     <<<<"L","A">>, <<"L","o","u","i","s","i","a","n","a">>>>,
     <<<<"M","E">>, <<"M","a","i","n","e">>>>,
     <<<<"M","D">>, <<"M","a","r","y","l","a","n","d">>>>,
     <<<<"M","A">>, <<"M","a","s","s","a","c","h","u","s","e","t","t","s">>>>,
     <<<<"M","I">>, <<"M","i","c","h","i","g","a","n">>>>,
     <<<<"M","N">>, <<"M","i","n","n","e","s","o","t","a">>>>,
     <<<<"M","S">>, <<"M","i","s","s","i","s","s","i","p","p","i">>>>,
     <<<<"M","O">>, <<"M","i","s","s","o","u","r","i">>>>,
     <<<<"M","T">>, <<"M","o","n","t","a","n","a">>>>,
     <<<<"N","E">>, <<"N","e","b","r","a","s","k","a">>>>,
     <<<<"N","V">>, <<"N","e","v","a","d","a">>>>,
     <<<<"N","H">>, <<"N","e","w"," ","H","a","m","p","s","h","i","r","e">>>>,
     <<<<"N","J">>, <<"N","e","w"," ","J","e","r","s","e","y">>>>,
     <<<<"N","M">>, <<"N","e","w"," ","M","e","x","i","c","o">>>>,
     <<<<"N","Y">>, <<"N","e","w"," ","Y","o","r","k">>>>,
     <<<<"N","C">>, <<"N","o","r","t","h"," ","C","a","r","o","l","i","n","a">>>>,
     <<<<"N","D">>, <<"N","o","r","t","h"," ","D","a","k","o","t","a">>>>,
     <<<<"O","H">>, <<"O","h","i","o">>>>,
     <<<<"O","K">>, <<"O","k","l","a","h","o","m","a">>>>,
     <<<<"O","R">>, <<"O","r","e","g","o","n">>>>,
     <<<<"P","A">>, <<"P","e","n","n","s","y","l","v","a","n","i","a">>>>,
     <<<<"R","I">>, <<"R","h","o","d","e"," ","I","s","l","a","n","d">>>>,
     <<<<"S","C">>, <<"S","o","u","t","h"," ","C","a","r","o","l","i","n","a">>>>,
     <<<<"S","D">>, <<"S","o","u","t","h"," ","D","a","k","o","t","a">>>>,
     <<<<"T","N">>, <<"T","e","n","n","e","s","s","e","e">>>>,
     <<<<"T","X">>, <<"T","e","x","a","s">>>>,
     <<<<"U","T">>, <<"U","t","a","h">>>>,
     <<<<"V","T">>, <<"V","e","r","m","o","n","t">>>>,
     <<<<"V","A">>, <<"V","i","r","g","i","n","i","a">>>>,
     <<<<"W","A">>, <<"W","a","s","h","i","n","g","t","o","n">>>>,
     <<<<"W","V">>, <<"W","e","s","t"," ","V","i","r","g","i","n","i","a">>>>,
     <<<<"W","I">>, <<"W","i","s","c","o","n","s","i","n">>>>,
     <<<<"W","Y">>, <<"W","y","o","m","i","n","g">>>> >>

STATE_NAMES == {US_STATES[i][2] : i \in DOMAIN US_STATES}
STATE_ABBRS == {US_STATES[i][1] : i \in DOMAIN US_STATES}

\* US_STATES[abbr]
StateName(abbr) == US_STATES[CHOOSE i \in DOMAIN US_STATES : US_STATES[i][1] = abbr][2]

\* [p.strip() for p in loc.split(",") if p.strip()]
RECURSIVE StripNonEmpty(_)
StripNonEmpty(fields) ==
  IF fields = <<>> THEN <<>>
  ELSE (IF Strip(Head(fields)) # <<>> THEN <<Strip(Head(fields))>> ELSE <<>>)
       \o StripNonEmpty(Tail(fields))

Parts(loc) == StripNonEmpty(SplitOn(loc, ","))

StateOfPart_whole_only(maybe_state) ==
  IF maybe_state \in STATE_ABBRS THEN Some(StateName(maybe_state))
  ELSE IF maybe_state \in STATE_NAMES THEN Some(maybe_state)
  ELSE None

\* lines 68-77: the state named by the second part, or by its first token
StateOfPart(maybe_state) ==
  IF maybe_state \in STATE_ABBRS THEN Some(StateName(maybe_state))
  ELSE IF maybe_state \in STATE_NAMES THEN Some(maybe_state)
  ELSE LET token == Strip(SplitWS(maybe_state)[1]) IN
       IF token \in STATE_ABBRS THEN Some(StateName(token))
       ELSE IF token \in STATE_NAMES THEN Some(token)
       ELSE None

\* x or None
OrNone(x) == IF x = <<>> THEN None ELSE Some(x)

\* lines 79-88: a single part, the trailing token of loc decides
SinglePart(loc) ==
  LET tokens == SplitWS(loc) IN
  IF tokens = <<>> THEN [city |-> None, state |-> None]
  ELSE LET last == Strip(tokens[Len(tokens)]) IN
       IF last \in STATE_ABBRS
         THEN [ city |-> OrNone(Strip(Join(SubSeq(tokens, 1, Len(tokens) - 1), <<" ">>))),
                state |-> Some(StateName(last)) ]
         ELSE [city |-> Some(loc), state |-> None]

parse_city_state_first_part(location_raw) ==
  IF ~Truthy(location_raw) THEN [city |-> None, state |-> None]
  ELSE LET parts == Parts(Strip(location_raw.v)) IN
       IF Len(parts) >= 2
         THEN [city |-> Some(parts[1]), state |-> StateOfPart(parts[2])]
         ELSE SinglePart(IF parts = <<>> THEN <<>> ELSE parts[1])

parse_city_state(location_raw) ==
  IF ~Truthy(location_raw) THEN [city |-> None, state |-> None]
  ELSE LET loc == Strip(location_raw.v)
           parts == Parts(loc)
       IN  IF Len(parts) >= 2
             THEN [city |-> Some(parts[1]), state |-> StateOfPart(parts[2])]
             ELSE SinglePart(loc)

----------------------------------------------------------------------------
(* fetch_jobs.main, fresh_sweep.main, clean_transform.main *)

\* fetch_jobs.STATES
STATES == <<<<"T","e","x","a","s">>, <<"C","a","l","i","f","o","r","n","i","a">>, <<"N","e","w"," ","Y","o","r","k">>>>

\* a row of raw_job_postings; the columns the location normalizer reads
RawRow(job_id, location, query_state) ==
  [job_id |-> job_id, location |-> location, query_state |-> query_state]

\* INSERT ... ON CONFLICT (job_id) DO UPDATE: the rows of a batch replace the
\* rows of the table that have their key, a later row of the batch an earlier one
Upsert(table, batch) ==
  [j \in DOMAIN table \cup {batch[i].job_id : i \in DOMAIN batch} |->
     IF \E i \in DOMAIN batch : batch[i].job_id = j
       THEN batch[CHOOSE i \in DOMAIN batch :
                   batch[i].job_id = j /\ \A k \in DOMAIN batch : batch[k].job_id = j => k <= i]
       ELSE table[j]]

\* the rows of a table, in any order
Selects(table) ==
  {batch \in [1..Cardinality(DOMAIN table) -> Range(table)] :
     \A i, j \in DOMAIN batch : i # j => batch[i] # batch[j]}

clean_record_fallback_first(r) ==
  LET parsed == parse_city_state(r.location) IN
  [ job_id |-> r.job_id, location_raw |-> r.location, city |-> parsed.city,
    state |-> IF Truthy(r.query_state) THEN r.query_state ELSE parsed.state ]

\* clean_transform.main, lines 121-145: the cleaned record of one raw row
clean_record(r) ==
  LET parsed == parse_city_state(r.location) IN
  [ job_id |-> r.job_id, location_raw |-> r.location, city |-> parsed.city,
    state |-> IF ~Truthy(parsed.state) /\ Truthy(r.query_state)
                THEN r.query_state ELSE parsed.state ]

----------------------------------------------------------------------------
(* Inputs: strings assembled from at most MaxPieces pieces *)

MaxPieces == 3

RECURSIVE Flatten(_)
Flatten(ps) == IF ps = <<>> THEN <<>> ELSE Head(ps) \o Flatten(Tail(ps))

SeqsUpTo(S, n) == UNION {[1..k -> S] : k \in 0..n}

Texts(pieces) == {Flatten(ps) : ps \in SeqsUpTo(pieces, MaxPieces)}

SeniorityPieces ==
  { <<"S","e","n","i","o","r"," ">>, <<"D","a","t","a"," ","E","n","g","i","n","e","e","r"," ">>, <<"I","n","t","e","r","n">>, <<"S","r">>, <<".">>, <<" ">>, <<"M","a","n","a","g","e","r">>,
    <<"J","r">>, <<"L","e","a","d">>, <<"V","P">>, <<"E","n","t","r","y">>, <<"S","t","u","d","e","n","t">> }

RolePieces ==
  { <<"D","a","t","a"," ","E","n","g","i","n","e","e","r"," ">>, <<"M","L">>, <<"H","T">>, <<" ">>, <<"B","I">>, <<"M","o">>, <<"l","e">>, <<"A","n","a","l","y","s","t">>,
    <<"T","a","b","l","e","a","u">>, <<"P","o","w","e","r">>, <<"/">>, <<"_">>, <<"D","a","t","a"," ","S","c","i","e","n","t","i","s","t">> }

TitleInputs ==
  {None} \cup {Some(t) : t \in Texts(SeniorityPieces) \cup Texts(RolePieces)}

NormalizePieces ==
  { <<"N","o","d","e">>, <<".">>, <<"j","s">>, <<" ">>, <<"-">>, <<"_">>, <<"\t">>, <<"+">>, <<"#">>, <<"/">>, <<",">>, <<"|">>,
    <<"P","o","w","e","r"," ">>, <<"-","B","I">> }

YearsPieces ==
  { <<"5","+"," ","y","e","a","r","s"," ","a","n","d"," ">>, <<"a","t"," ","l","e","a","s","t"," ","3"," ","y","e","a","r","s">>, <<"1","2">>, <<"0">>, <<" ">>, <<"+">>, <<"y","e","a","r","s">>, <<"y","r","s">>,
    <<"m","i","n","i","m","u","m"," ">>, <<" ","o","f"," ","e","x","p","e","r","i","e","n","c","e">>, <<"s">> }

TextInputs ==
  {None} \cup {Some(t) : t \in Texts(NormalizePieces) \cup Texts(YearsPieces)}

SkillPieces == { <<"j","a","v","a">>, <<"s","c","r","i","p","t">>, <<"P","o","w","e","r">>, <<" ">>, <<"-">>, <<"B","I">>, <<"k","e">>, <<"c","+","+">> }

SkillTexts == {None} \cup {Some(t) : t \in Texts(SkillPieces)}

\* entries of config/skills.yml
SkillEntries ==
  { Skill(<<"J","a","v","a">>, AliasList(<<<<"j","a","v","a">>>>)),
    Skill(<<"p","o","w","e","r"," ","b","i">>, AliasList(<<<<" ","P","o","w","e","r"," ","B","I">>, <<"p","b","i">>>>)),
    Skill(<<"j","a","v","a">>, AliasList(<<<<"j","a","v","a">>>>)),
    Skill(<<"c","+","+">>, AliasList(<<<<>>, <<"C","+","+">>>>)),
    Skill(<<"b","l","a","n","k">>, AliasList(<<<<" ">>>>)),
    Skill(<<"e","m","p","t","y">>, AliasList(<<>>)),
    Skill(<<"n","u","l","l">>, NoAliases),
    Skill(<<"p","y","t","h","o","n">>, AliasString(<<"p","y">>)),
    Skill(<<"f","i","v","e">>, AliasNumber(<<"5">>)),
    Skill(<<"z","e","r","o">>, AliasNumber(<<"0">>)) }

\* at most MaxSkills entries, in any order, the keys of a mapping being distinct
MaxSkills == 2

\* skills: [java: [java]], a list of entries in place of the mapping
NotADict == [kind |-> "list", items |-> <<Skill(<<"j","a","v","a">>, AliasList(<<<<"j","a","v","a">>>>))>>]

\* a mapping of more than TopSkills skills, all with the alias java
ManyNames == <<"a","b","c","d","e","f","g","h","i","j","k","l","m","n","o","p">>
ManySkills ==
  SkillsDict([i \in 1..(TopSkills + 1) |-> Skill(<<"s", ManyNames[i]>>, AliasList(<<<<"j","a","v","a">>>>))])

SkillConfigs ==
  {SkillsDict(es) : es \in {x \in SeqsUpTo(SkillEntries, MaxSkills) :
                              \A i, j \in DOMAIN x : i # j => x[i].canonical # x[j].canonical}}
  \cup {ManySkills, NotADict}

LocationPieces ==
  { <<"A","u","s","t","i","n">>, <<","," ">>, <<" ">>, <<",">>, <<"T","X">>, <<"T","e","x","a","s">>, <<"N","e","w"," ","Y","o","r","k">>, <<"N","Y">>, <<"U","S","A">>,
    <<"R","e","m","o","t","e">>, <<"D","a","l","l","a","s">>, <<"L","A">>, <<"T","X"," ","U","S","A">> }

LocationInputs == {None} \cup {Some(t) : t \in Texts(LocationPieces)}

\* descriptions of the job API
MarkupPieces == { <<"<">>, <<">">>, <<"<","b",">">>, <<"a">>, <<" ">>, <<"\n">>, <<"b"," "," ","c">> }

MarkupInputs == {None} \cup {Some(t) : t \in Texts(MarkupPieces)}

\* job ids 1..MaxJobs
MaxJobs == 1
JobIds == 1..MaxJobs

\* location display names of the job API
ApiLocations == {None, Some(<<"A","u","s","t","i","n">>), Some(<<"A","u","s","t","i","n",","," ","T","X">>)}

\* lines of the locations file of fresh_sweep
LocationLines == {<<"T","e","x","a","s">>, <<"T","X">>}

\* rows stored before raw_job_postings had the column query_state
LegacyTables ==
  UNION {[ids -> {RawRow(0, l, None) : l \in ApiLocations}] : ids \in SUBSET JobIds}

EmptyTable == [j \in {} |-> None]

----------------------------------------------------------------------------
(* The classifiers applied to one title: main(), lines 154-160 *)

IdleSkills == skills_cfg = None /\ load = "init" /\ compiled = <<>>
IdleFeatures ==
  /\ job_postings_features = EmptyTable /\ fpc = "idle"
  /\ rows = <<>> /\ out = <<>> /\ extracted_at = 0 /\ last_done = 0

IdleClean ==
  /\ IdleFeatures
  /\ raw_job_postings = EmptyTable /\ job_postings_clean = EmptyTable
  /\ pc = "idle" /\ raw_rows = <<>> /\ cleaned = <<>>

InitTitle ==
  /\ fn = "none" /\ arg \in TitleInputs /\ ret = None
  /\ IdleSkills /\ IdleClean

CallClassifyRoleFamily ==
  /\ fn = "none"
  /\ fn' = "classify_role_family"
  /\ ret' = classify_role_family(arg)
  /\ UNCHANGED <<featVars, arg, skillVars, cleanVars>>

CallInferSeniority ==
  /\ fn = "none"
  /\ fn' = "infer_seniority"
  /\ ret' = infer_seniority(arg)
  /\ UNCHANGED <<featVars, arg, skillVars, cleanVars>>

NextTitle == CallClassifyRoleFamily \/ CallInferSeniority

SpecTitle == InitTitle /\ [][NextTitle]_vars

----------------------------------------------------------------------------
(* C1 *)

SeniorityRules ==
  << [tier |-> "Intern",     kws |-> {<<"i","n","t","e","r","n">>, <<"c","o","-","o","p">>, <<"s","t","u","d","e","n","t">>}],
     [tier |-> "Management", kws |-> {<<"d","i","r","e","c","t","o","r">>, <<"h","e","a","d">>, <<"v","p">>, <<"v","i","c","e"," ","p","r","e","s","i","d","e","n","t">>, <<"m","a","n","a","g","e","r">>}],
     [tier |-> "Senior",     kws |-> {<<"p","r","i","n","c","i","p","a","l">>, <<"s","t","a","f","f">>, <<"l","e","a","d">>, <<"s","e","n","i","o","r">>, <<"s","r",".">>, <<"s","r"," ">>}],
     [tier |-> "Entry",      kws |-> {<<"j","u","n","i","o","r">>, <<"j","r",".">>, <<"e","n","t","r","y">>, <<"a","s","s","o","c","i","a","t","e">>, <<"n","e","w"," ","g","r","a","d">>}] >>

SeniorityRuleFires(i, t) == \E kw \in SeniorityRules[i].kws : Contains(t, kw)

\* C1: infer_seniority returns the tier of the first rule, in the order Intern,
\* Management, Senior, Entry, one of whose keywords the lower-cased title
\* contains, and Mid when no rule fires; 'Senior Data Engineer Intern' is Intern.
C1_FirstSeniorityRuleWins ==
  fn = "infer_seniority" =>
    LET t == Lower(OrEmpty(arg))
        fired == {i \in DOMAIN SeniorityRules : SeniorityRuleFires(i, t)}
    IN  /\ fired = {} => ret = "Mid"
        /\ \A i \in fired : (\A j \in fired : i <= j) => ret = SeniorityRules[i].tier
        /\ arg = Some(<<"S","e","n","i","o","r"," ","D","a","t","a"," ","E","n","g","i","n","e","e","r"," ","I","n","t","e","r","n">>) => ret = "Intern"

\* a title satisfying rule 1 and rule 3 has been classified
C1_Witness ==
  /\ fn = "infer_seniority"
  /\ arg = Some(<<"S","e","n","i","o","r"," ","D","a","t","a"," ","E","n","g","i","n","e","e","r"," ","I","n","t","e","r","n">>)
  /\ SeniorityRuleFires(1, Lower(arg.v)) /\ SeniorityRuleFires(3, Lower(arg.v))
  /\ ret = "Intern"

----------------------------------------------------------------------------
(* C2 *)

\* kw occurs in t with no word character immediately before or after it
Standalone(t, kw) ==
  \E i \in 1..Len(t) :
    /\ OccursAt(t, kw, i)
    /\ (i = 1 \/ ~IsWordChar(t[i - 1]))
    /\ (i + Len(kw) - 1 = Len(t) \/ ~IsWordChar(t[i + Len(kw)]))

RoleRules ==
  << [family |-> "Data Engineering", kws |-> {<<"d","a","t","a"," ","e","n","g","i","n","e","e","r">>, <<"e","t","l">>, <<"p","i","p","e","l","i","n","e">>}, token |-> {}],
     [family |-> "Data Science", kws |-> {<<"d","a","t","a"," ","s","c","i","e","n","t","i","s","t">>, <<"m","a","c","h","i","n","e"," ","l","e","a","r","n","i","n","g">>}, token |-> {<<"m","l">>}],
     [family |-> "Business Intelligence",
      kws |-> {<<"b","u","s","i","n","e","s","s"," ","i","n","t","e","l","l","i","g","e","n","c","e">>, <<"p","o","w","e","r"," ","b","i">>, <<"t","a","b","l","e","a","u">>}, token |-> {<<"b","i">>}],
     [family |-> "Analytics", kws |-> {<<"a","n","a","l","y","s","t">>, <<"a","n","a","l","y","t","i","c","s">>}, token |-> {}] >>

RoleRuleFires(i, t) ==
  \/ \E kw \in RoleRules[i].kws : Contains(t, kw)
  \/ \E kw \in RoleRules[i].token : Standalone(t, kw)

\* C2: classify_role_family returns the family of the first rule that fires, in the
\* order Data Engineering, Data Science, Business Intelligence, Analytics, else
\* Other; 'ml' and 'bi' fire only as whole words, never inside a longer word.
C2_FirstRoleRuleWins ==
  fn = "classify_role_family" =>
    LET t == Lower(OrEmpty(arg))
        fired == {i \in DOMAIN RoleRules : RoleRuleFires(i, t)}
    IN  /\ fired = {} => ret = "Other"
        /\ \A i \in fired : (\A j \in fired : i <= j) => ret = RoleRules[i].family
        /\ arg \in {Some(<<"H","T","M","L"," ">>), Some(<<"M","o","B","I","l","e"," ">>)} => ret = "Other"

\* 'ml' occurs only inside a longer word and the title was classified Other
C2_Witness ==
  /\ fn = "classify_role_family"
  /\ arg = Some(<<"H","T","M","L"," ">>)
  /\ Contains(Lower(arg.v), <<"m","l">>)
  /\ ret = "Other"

----------------------------------------------------------------------------
(* The text functions applied to one text blob: main(), lines 157, 162 *)

InitText ==
  /\ fn = "none" /\ arg \in TextInputs /\ ret = None
  /\ IdleSkills /\ IdleClean

CallNormalizeText ==
  /\ fn = "none"
  /\ fn' = "normalize_text"
  /\ ret' = normalize_text(arg)
  /\ UNCHANGED <<featVars, arg, skillVars, cleanVars>>

\* normalize_text applied to the text it returned
CallNormalizeTextAgain ==
  /\ fn = "normalize_text"
  /\ fn' = "normalize_text(normalize_text)"
  /\ arg' = Some(ret)
  /\ ret' = normalize_text(Some(ret))
  /\ UNCHANGED <<featVars, skillVars, cleanVars>>

CallExtractYearsExperience ==
  /\ fn = "none"
  /\ fn' = "extract_years_experience"
  /\ ret' = extract_years_experience(arg)
  /\ UNCHANGED <<featVars, arg, skillVars, cleanVars>>

NextText == CallNormalizeText \/ CallNormalizeTextAgain \/ CallExtractYearsExperience

SpecText == InitText /\ [][NextText]_vars

----------------------------------------------------------------------------
(* C3 *)

AllSpaces(t, i, j) == \A k \in i..j : IsSpaceChar(t[k])
NotWordAt(t, i) == i > Len(t) \/ ~IsWordChar(t[i])
UnitAt(t, i) == {i + Len(u) : u \in {w \in {<<"y","e","a","r","s">>, <<"y","r","s">>} : OccursAt(t, w, i)}}

\* the digits t[i..j] are followed by '+' and the unit: 'N+ years'
PlusYears(t, i, j) ==
  \E k \in (j + 1)..Len(t), m \in (j + 2)..Len(t) :
    /\ k < m /\ AllSpaces(t, j + 1, k - 1) /\ t[k] = "+" /\ AllSpaces(t, k + 1, m - 1)
    /\ \E e \in UnitAt(t, m) : NotWordAt(t, e)

\* the digits t[i..j] follow the words lead and precede the unit: 'minimum N years'
LeadYears(t, lead, i, j) ==
  /\ \E b \in 1..(i - 1) :
       /\ b + Len(lead) <= i - 1
       /\ OccursAt(t, lead, b) /\ AllSpaces(t, b + Len(lead), i - 1)
  /\ \E m \in (j + 1)..Len(t) :
       AllSpaces(t, j + 1, m - 1) /\ \E e \in UnitAt(t, m) : NotWordAt(t, e)

AtLeastYears(t, i, j) ==
  \E sp \in 1..Len(t) : LeadYears(t, <<"a","t">> \o [k \in 1..sp |-> " "] \o <<"l","e","a","s","t">>, i, j)

\* the digits t[i..j] precede the unit and 'of experience': 'N years of experience'
YearsOfExperience(t, i, j) ==
  \E m \in (j + 1)..Len(t) :
    /\ AllSpaces(t, j + 1, m - 1)
    /\ \E e \in UnitAt(t, m) : \E o \in (e + 1)..Len(t) : \E x \in (o + 3)..Len(t) :
         /\ AllSpaces(t, e, o - 1) /\ OccursAt(t, <<"o","f">>, o)
         /\ AllSpaces(t, o + 2, x - 1) /\ OccursAt(t, <<"e","x","p","e","r","i","e","n","c","e">>, x)

Phrased(t, i, j) ==
  /\ i <= j /\ \A k \in i..j : IsDigit(t[k])
  /\ \/ PlusYears(t, i, j)
     \/ LeadYears(t, <<"m","i","n","i","m","u","m">>, i, j)
     \/ AtLeastYears(t, i, j)
     \/ YearsOfExperience(t, i, j)

\* the integers of one or two digits that a phrasing can capture in t
Capturable(t) ==
  {ParseInt(Slice(t, i, j)) : <<i, j>> \in {x \in (DOMAIN t) \X (DOMAIN t) : x[2] - x[1] <= 1 /\ Phrased(t, x[1], x[2])}}

\* the year counts t states: the whole numbers written in one of the phrasings
StatedYears(t) ==
  {ParseInt(Slice(t, x[1], x[2])) :
     x \in {y \in (DOMAIN t) \X (DOMAIN t) :
              /\ Phrased(t, y[1], y[2])
              /\ (y[1] = 1 \/ ~IsDigit(t[y[1] - 1]))}}

\* every number of t is written with at most two digits
ShortNumbers(t) == \A i \in 1..(Len(t) - 2) : ~(\A k \in i..(i + 2) : IsDigit(t[k]))

\* C3: extract_years_experience returns null exactly when no phrasing ('N+ years',
\* 'minimum N years', 'at least N years', 'N years of experience', years or yrs)
\* occurs in the normalized text; otherwise it returns a captured integer that is
\* never larger than any year count the text states, the minimum of the stated
\* counts; '5+ years and at least 3 years' gives 3.
C3_MinimumYears ==
  fn = "extract_years_experience" =>
    LET t == normalize_text(Some(OrEmpty(arg))) IN
    /\ ~ret.some <=> Capturable(t) = {}
    /\ ret.some => ret.v \in Capturable(t)
    /\ ret.some => \A n \in StatedYears(t) : ret.v <= n
    /\ (ret.some /\ ShortNumbers(t)) =>
         ret.v \in StatedYears(t)
    /\ arg = Some(<<"5","+"," ","y","e","a","r","s"," ","a","n","d"," ","a","t"," ","l","e","a","s","t"," ","3"," ","y","e","a","r","s">>) => ret = Some(3)

\* a text with two phrasings stating different counts has been processed
C3_Witness ==
  /\ fn = "extract_years_experience"
  /\ arg = Some(<<"5","+"," ","y","e","a","r","s"," ","a","n","d"," ","a","t"," ","l","e","a","s","t"," ","3"," ","y","e","a","r","s">>)
  /\ StatedYears(normalize_text(arg)) = {3, 5}
  /\ ret = Some(3)

----------------------------------------------------------------------------
(* C8 *)

\* C8: normalize_text(normalize_text(x)) = normalize_text(x) for every text x,
\* null and empty included.
C8_NormalizeIdempotent ==
  fn = "normalize_text(normalize_text)" => ret = arg.v

\* a text that normalization changes has been normalized twice
C8_Witness ==
  /\ fn = "normalize_text(normalize_text)"
  /\ arg = Some(<<"p","o","w","e","r"," ","b","i">>)
  /\ ret = <<"p","o","w","e","r"," ","b","i">>

----------------------------------------------------------------------------
(* C9 *)

IsSeparatorChar(c) == c \in {"/", ",", "_", "-", "|"}
IsKeptChar(c) == (IsWordChar(c) /\ c # "_") \/ c = "+"
IsRemovedChar(c) == ~IsKeptChar(c) /\ ~IsSeparatorChar(c) /\ ~IsSpaceChar(c)

Blank(s, Test(_)) == [i \in DOMAIN s |-> IF Test(s[i]) THEN " " ELSE s[i]]
KeepNot(c) == ~IsRemovedChar(c)
NotKept(c) == ~IsKeptChar(c)

\* lower-cased, only kept characters and single inner spaces
WellFormed(r) ==
  /\ \A i \in DOMAIN r : r[i] = " " \/ (IsKeptChar(r[i]) /\ r[i] = LowerChar(r[i]))
  /\ r # <<>> => r[1] # " " /\ r[Len(r)] # " "
  /\ \A i \in 1..(Len(r) - 1) : ~(r[i] = " " /\ r[i + 1] = " ")

\* C9 as stated: the characters that are neither word characters, whitespace, '+'
\* nor one of / , _ - | are deleted, their neighbours becoming adjacent
\* ('node.js' becomes 'nodejs').
C9_PunctuationDeleted ==
  fn = "normalize_text" =>
    /\ WellFormed(ret)
    /\ ret = Join(SplitWS(Blank(SelectSeq(Lower(OrEmpty(arg)), KeepNot), IsSeparatorChar)), <<" ">>)

\* C9, amended: normalize_text returns the lower-cased words of the text joined by
\* single spaces, a word being a maximal run of letters, digits and '+'; every
\* other character, slash, comma, underscore, hyphen, pipe and any other
\* punctuation alike, separates words ('node.js' becomes 'node js').
C9_PunctuationSeparates ==
  fn = "normalize_text" =>
    /\ WellFormed(ret)
    /\ ret = Join(SplitWS(Blank(Lower(OrEmpty(arg)), NotKept)), <<" ">>)
    /\ arg = Some(<<"N","o","d","e",".","j","s">>) => ret = <<"n","o","d","e"," ","j","s">>

\* a text with punctuation between two words has been normalized
C9_Witness ==
  /\ fn = "normalize_text"
  /\ arg = Some(<<"N","o","d","e",".","j","s">>)
  /\ ret = <<"n","o","d","e"," ","j","s">>

----------------------------------------------------------------------------
(* The skill extractor: the import of extract_features, then extract_skills *)

InitSkills ==
  /\ fn = "none" /\ arg \in SkillTexts /\ ret = None
  /\ skills_cfg \in SkillConfigs /\ load = "init" /\ compiled = <<>>
  /\ IdleClean

\* lines 30-32: the mapping is not a dict, or is empty; line 40: TypeError
LoadSkillsRaises ==
  /\ load = "init"
  /\ skills_cfg.kind # "dict" \/ skills_cfg.items = <<>> \/ CompileRaises(skills_cfg.items)
  /\ load' = "error"
  /\ UNCHANGED <<featVars, callVars, skills_cfg, compiled, cleanVars>>

\* lines 30-46
LoadSkills ==
  /\ load = "init"
  /\ skills_cfg.kind = "dict" /\ skills_cfg.items # <<>> /\ ~CompileRaises(skills_cfg.items)
  /\ compiled' = Compile(skills_cfg.items)
  /\ load' = "loaded"
  /\ UNCHANGED <<featVars, callVars, skills_cfg, cleanVars>>

CallExtractSkills ==
  /\ load = "loaded" /\ fn = "none"
  /\ fn' = "extract_skills"
  /\ ret' = extract_skills(compiled, arg)
  /\ UNCHANGED <<featVars, arg, skillVars, cleanVars>>

NextSkills == LoadSkillsRaises \/ LoadSkills \/ CallExtractSkills

SpecSkills == InitSkills /\ [][NextSkills]_vars

----------------------------------------------------------------------------
(* C10 *)

\* the entries of the mapping that have a matcher, in the order of compiled
Compiled(entries) == SelectSeq(entries, LAMBDA e : ~NoAliasGiven(e.aliases))

\* the alias a occurs in t as a whole word or phrase: a substring of t, up to
\* case, with no word character immediately before or after it
WholePhrase(t, a) ==
  \E i \in 1..(Len(t) + 1) :
    /\ OccursAt(Lower(t), Lower(a), i)
    /\ i = 1 \/ ~IsWordChar(t[i - 1])
    /\ i + Len(a) > Len(t) \/ ~IsWordChar(t[i + Len(a)])

\* the non-empty aliases of an entry, trimmed
AliasesOf(e) == {Strip(e.aliases.items[i]) : i \in {k \in DOMAIN e.aliases.items : Strip(e.aliases.items[k]) # <<>>}}

MatcherIsExact(k, t) ==
  Search(compiled[k].rx, t) <=> \E a \in AliasesOf(Compiled(skills_cfg.items)[k]) : WholePhrase(t, a)

\* C10: a compiled skill matcher matches the normalized text if and only if one of
\* the skill's aliases occurs in it as a whole word or phrase, case-insensitively,
\* not adjoining a word character.
C10_MatcherIffAliasOccurs ==
  fn = "extract_skills" =>
    \A k \in DOMAIN compiled : MatcherIsExact(k, normalize_text(Some(OrEmpty(arg))))

\* C10 for the skills that have at least one non-empty alias
C10_ProperMatchers ==
  fn = "extract_skills" =>
    \A k \in DOMAIN compiled :
      compiled[k].rx # <<>> => MatcherIsExact(k, normalize_text(Some(OrEmpty(arg))))

----------------------------------------------------------------------------
(* parse_city_state applied to one location: clean_transform.main(), line 121 *)

InitLocation ==
  /\ fn = "none" /\ arg \in LocationInputs /\ ret = None
  /\ IdleSkills /\ IdleClean

CallParseCityState ==
  /\ fn = "none"
  /\ fn' = "parse_city_state"
  /\ ret' = parse_city_state(arg)
  /\ UNCHANGED <<featVars, arg, skillVars, cleanVars>>

NextLocation == CallParseCityState

SpecLocation == InitLocation /\ [][NextLocation]_vars

----------------------------------------------------------------------------
(* C4 *)

\* the comma-separated parts of s, trimmed, the empty ones dropped
CommaParts(s) ==
  LET fields == SplitOn(s, ",")
      kept == {i \in DOMAIN fields : Strip(fields[i]) # <<>>}
  IN  [k \in 1..Cardinality(kept) |->
         Strip(fields[CHOOSE i \in kept : Cardinality({j \in kept : j < i}) = k - 1])]

IsAbbreviation(x) == \E i \in DOMAIN US_STATES : US_STATES[i][1] = x
IsStateName(x) == \E i \in DOMAIN US_STATES : US_STATES[i][2] = x
FullName(x) == IF IsStateName(x) THEN x ELSE StateName(x)
FirstToken(x) == SplitWS(x)[1]

\* C4: with two or more trimmed non-empty comma-separated parts the city is the
\* first part and the state comes from the second part only: the part itself if
\* it is a state name or abbreviation (expanded), else its first token if that
\* is one, else null.
C4_CityCommaState ==
  (fn = "parse_city_state" /\ arg.some /\ Len(CommaParts(arg.v)) >= 2) =>
    LET second == CommaParts(arg.v)[2] IN
    /\ ret.city = Some(CommaParts(arg.v)[1])
    /\ ret.state =
         IF IsStateName(second) \/ IsAbbreviation(second) THEN Some(FullName(second))
         ELSE IF IsStateName(FirstToken(second)) \/ IsAbbreviation(FirstToken(second))
           THEN Some(FullName(FirstToken(second)))
         ELSE None
    /\ arg = Some(<<"D","a","l","l","a","s",","," ","T","e","x","a","s">>) => ret = [city |-> Some(<<"D","a","l","l","a","s">>), state |-> Some(<<"T","e","x","a","s">>)]
    /\ arg = Some(<<"N","e","w"," ","Y","o","r","k",","," ","N","Y">>) => ret = [city |-> Some(<<"N","e","w"," ","Y","o","r","k">>), state |-> Some(<<"N","e","w"," ","Y","o","r","k">>)]
    /\ arg = Some(<<"R","e","m","o","t","e",","," ","U","S","A">>) => ret = [city |-> Some(<<"R","e","m","o","t","e">>), state |-> None]

\* a second part whose first token alone names the state has been parsed
C4_Witness ==
  /\ fn = "parse_city_state"
  /\ arg = Some(<<"A","u","s","t","i","n",","," ","T","X"," ","U","S","A">>)
  /\ Len(CommaParts(arg.v)) = 2
  /\ ret = [city |-> Some(<<"A","u","s","t","i","n">>), state |-> Some(<<"T","e","x","a","s">>)]

----------------------------------------------------------------------------
(* C5 *)

Tokens(s) == SplitWS(s)
LastToken(s) == Tokens(s)[Len(Tokens(s))]

\* what the location parser returns for a string with exactly one part
SinglePartResult ==
  LET loc == Strip(arg.v) IN
  IF IsAbbreviation(LastToken(loc))
    THEN /\ ret.state = Some(FullName(LastToken(loc)))
         /\ ret.city = IF Len(Tokens(loc)) = 1 THEN None
                       ELSE Some(Join(SubSeq(Tokens(loc), 1, Len(Tokens(loc)) - 1), <<" ">>))
    ELSE ret.city = Some(loc) /\ ret.state = None

\* C5 as stated: with exactly one part, a trailing two-letter abbreviation gives the
\* state and the text before it the city, otherwise the whole string is the city;
\* the city contains no comma and no state abbreviation token.
C5_CityHasNoCommaNoAbbreviation ==
  (fn = "parse_city_state" /\ arg.some /\ Len(CommaParts(arg.v)) = 1) =>
    /\ SinglePartResult
    /\ ret.city.some =>
         /\ ~Contains(ret.city.v, <<",">>)
         /\ \A i \in DOMAIN Tokens(ret.city.v) : ~IsAbbreviation(Tokens(ret.city.v)[i])

\* C5, amended: with exactly one part, the last whitespace-delimited token of the
\* trimmed string decides: a two-letter abbreviation gives the state, and the city
\* is the tokens before it joined by single spaces (null if there are none);
\* otherwise the whole trimmed string is the city and the state is null.  The city
\* holds a comma only if the input does, and it may hold abbreviation tokens.
C5_TrailingAbbreviation ==
  (fn = "parse_city_state" /\ arg.some /\ Len(CommaParts(arg.v)) = 1) =>
    /\ SinglePartResult
    /\ (ret.city.some /\ ~Contains(arg.v, <<",">>)) => ~Contains(ret.city.v, <<",">>)
    /\ arg = Some(<<"A","u","s","t","i","n"," ","T","X">>) => ret = [city |-> Some(<<"A","u","s","t","i","n">>), state |-> Some(<<"T","e","x","a","s">>)]

\* a single part with a stray comma has been parsed
C5_Witness ==
  /\ fn = "parse_city_state"
  /\ arg = Some(<<"A","u","s","t","i","n",",">>)
  /\ Len(CommaParts(arg.v)) = 1
  /\ ret = [city |-> Some(<<"A","u","s","t","i","n",",">>), state |-> None]

----------------------------------------------------------------------------
(* The ingestion and cleaning stages of run_pipeline, one after the other *)

Init ==
  /\ fn = "none" /\ arg = None /\ ret = None
  /\ IdleSkills /\ IdleFeatures
  /\ raw_job_postings \in {[j \in DOMAIN t |-> RawRow(j, t[j].location, None)] : t \in LegacyTables}
  /\ job_postings_clean = EmptyTable
  /\ pc = "idle" /\ raw_rows = <<>> /\ cleaned = <<>>

\* the results of one API call: at most one job per id
Payloads == UNION {[ids -> ApiLocations] : ids \in (SUBSET JobIds) \ {{}}}

\* the rows of one payload, in any order, all with the query_state of the call
RowsOf(payload, query_state) ==
  {batch \in [1..Cardinality(DOMAIN payload) -> {RawRow(j, payload[j], Some(query_state)) : j \in DOMAIN payload}] :
     \A i, j \in DOMAIN batch : i # j => batch[i] # batch[j]}

\* fetch_jobs.main, lines 102-129: one (state, keyword) call and its insert_rows
DeepScan ==
  /\ pc = "idle"
  /\ \E i \in DOMAIN STATES, payload \in Payloads : \E batch \in RowsOf(payload, STATES[i]) :
       raw_job_postings' = Upsert(raw_job_postings, batch)
  /\ UNCHANGED <<featVars, callVars, skillVars, job_postings_clean, pc, raw_rows, cleaned>>

\* fresh_sweep.main, lines 145-171: one location call and its insert_rows
FreshSweep ==
  /\ pc = "idle"
  /\ \E loc \in LocationLines, payload \in Payloads : \E batch \in RowsOf(payload, loc) :
       raw_job_postings' = Upsert(raw_job_postings, batch)
  /\ UNCHANGED <<featVars, callVars, skillVars, job_postings_clean, pc, raw_rows, cleaned>>

\* clean_transform.main, lines 114-119
CleanSelect ==
  /\ pc = "idle"
  /\ raw_rows' \in Selects(raw_job_postings)
  /\ cleaned' = <<>>
  /\ pc' = "loop"
  /\ UNCHANGED <<featVars, callVars, skillVars, raw_job_postings, job_postings_clean>>

\* clean_transform.main, lines 120-145: one pass of the loop
CleanRecord ==
  /\ pc = "loop" /\ Len(cleaned) < Len(raw_rows)
  /\ cleaned' = Append(cleaned, clean_record(raw_rows[Len(cleaned) + 1]))
  /\ UNCHANGED <<featVars, callVars, skillVars, raw_job_postings, job_postings_clean, pc, raw_rows>>

\* clean_transform.main, lines 147-175: the loop is over, the upsert, the return
CleanUpsert ==
  /\ pc = "loop" /\ Len(cleaned) = Len(raw_rows)
  /\ job_postings_clean' = Upsert(job_postings_clean, cleaned)
  /\ pc' = "idle" /\ raw_rows' = <<>> /\ cleaned' = <<>>
  /\ UNCHANGED <<featVars, callVars, skillVars, raw_job_postings>>

Next == DeepScan \/ FreshSweep \/ CleanSelect \/ CleanRecord \/ CleanUpsert

Spec == Init /\ [][Next]_vars

----------------------------------------------------------------------------
(* C6 *)

\* the cleaned record i took its state from the query context of its raw row
UsedFallback(i) ==
  /\ cleaned[i].state = raw_rows[i].query_state
  /\ parse_city_state(raw_rows[i].location).state # cleaned[i].state

FallbackSupplied(i) == raw_rows[i].query_state.some /\ raw_rows[i].query_state.v # <<>>

\* C6: the fallback state is used for a record if and only if parsing its location
\* left the state undetermined and a fallback was supplied; a parsed state is never
\* overridden, and with neither the state stays null.
C6_FallbackOnlyWhenUndetermined ==
  \A i \in DOMAIN cleaned :
    LET parsed == parse_city_state(raw_rows[i].location).state IN
    /\ UsedFallback(i) <=> (~parsed.some /\ FallbackSupplied(i))
    /\ parsed.some => cleaned[i].state = parsed
    /\ (~parsed.some /\ ~FallbackSupplied(i)) => cleaned[i].state = None
    /\ (raw_rows[i].location = Some(<<"A","u","s","t","i","n">>) /\ raw_rows[i].query_state = Some(<<"T","e","x","a","s">>)) =>
         (cleaned[i].city = Some(<<"A","u","s","t","i","n">>) /\ cleaned[i].state = Some(<<"T","e","x","a","s">>))

\* one record took the fallback
C6_Witness ==
  \E i \in DOMAIN cleaned :
    /\ raw_rows[i].location = Some(<<"A","u","s","t","i","n">>) /\ raw_rows[i].query_state = Some(<<"T","e","x","a","s">>)
    /\ UsedFallback(i)
    /\ cleaned[i].state = Some(<<"T","e","x","a","s">>)

\* one record kept its parsed state although a different fallback was supplied
C6_WitnessParsedKept ==
  \E i \in DOMAIN cleaned :
    /\ raw_rows[i].location = Some(<<"A","u","s","t","i","n",","," ","T","X">>) /\ raw_rows[i].query_state = Some(<<"C","a","l","i","f","o","r","n","i","a">>)
    /\ cleaned[i].state = Some(<<"T","e","x","a","s">>)

----------------------------------------------------------------------------
(* C7 *)

FullNameOrNull(state) == ~state.some \/ state.v \in STATE_NAMES

\* C7: the state of every cleaned record, after parsing and after the fallback, is
\* null or one of the 50 full state names, never an abbreviation or another string.
C7_StateIsFullNameOrNull ==
  /\ \A i \in DOMAIN cleaned : FullNameOrNull(cleaned[i].state)
  /\ \A j \in DOMAIN job_postings_clean : FullNameOrNull(job_postings_clean[j].state)

\* the state that text parsing alone determines is a full name or null
C7_ParsedStateIsFullNameOrNull ==
  \A i \in DOMAIN raw_rows : FullNameOrNull(parse_city_state(raw_rows[i].location).state)

----------------------------------------------------------------------------
(* C11 *)

\* the entries of the mapping whose matcher matches t, in definition order
MatchedEntries(entries, t) ==
  SelectSeq(entries, LAMBDA e : ~NoAliasGiven(e.aliases) /\ Search(Matcher(e.canonical, e.aliases).rx, t))

\* their canonical names, lower-cased and trimmed
MatchedNames(entries, t) ==
  [i \in DOMAIN MatchedEntries(entries, t) |-> Lower(Strip(MatchedEntries(entries, t)[i].canonical))]

NoDuplicates(s) == \A i, j \in DOMAIN s : i # j => s[i] # s[j]

FirstN(s, n) == SubSeq(s, 1, IF Len(s) < n THEN Len(s) ELSE n)

\* the matched skills come in definition order, the capped view is the first
\* min(10, count) of them, and a second extraction returns the same lists
OrderedAndCapped ==
  /\ ret.found = MatchedNames(skills_cfg.items, normalize_text(Some(OrEmpty(arg))))
  /\ ret.top = FirstN(ret.found, 10)
  /\ extract_skills(compiled, arg) = ret

\* C11: extract_skills returns the matched canonical skills in dictionary
\* definition order with no canonical name twice, the capped view is the first
\* min(10, count) entries of that list, and a second extraction of the same text
\* with the same dictionary returns the same lists.
C11_OrderedSetOfSkills ==
  fn = "extract_skills" => (OrderedAndCapped /\ NoDuplicates(ret.found))

\* C11 without the uniqueness of the names
C11_OrderedAndCapped ==
  fn = "extract_skills" => OrderedAndCapped

\* more than 10 skills matched and the capped view has 10 of them
C11_Capped ==
  fn = "extract_skills" /\ Len(ret.found) > 10 /\ Len(ret.top) = 10

----------------------------------------------------------------------------
(* C12 *)

\* a non-empty mapping of canonical name to list of alias strings (or to nothing)
StringToList(cfg) ==
  /\ cfg.kind = "dict" /\ cfg.items # <<>>
  /\ \A i \in DOMAIN cfg.items : cfg.items[i].aliases.kind \in {"list", "null"}

\* C12: loading raises, and no extraction is performed, whenever the skills mapping
\* is missing, empty, not a mapping, or has a value that is not a list of alias
\* strings (a single string, a number); extraction only runs with a dictionary of
\* canonical name to list of strings.
C12_MalformedConfigRaises ==
  /\ load = "loaded" => StringToList(skills_cfg)
  /\ fn = "extract_skills" => StringToList(skills_cfg)
  /\ (load # "init" /\ ~StringToList(skills_cfg)) => load = "error"

\* what lines 31-32 and 40 do raise on: no mapping, an empty one, a non-zero number
C12_NotAMappingRaises ==
  (skills_cfg.kind # "dict" \/ skills_cfg.items = <<>> \/ CompileRaises(skills_cfg.items))
    => (load \in {"init", "error"} /\ fn = "none")

\* the import has raised on a list given in place of the mapping
C12_Raised ==
  skills_cfg = NotADict /\ load = "error"

----------------------------------------------------------------------------
(* clean_text applied to one description: clean_transform.main(), line 127 *)

InitCleanText ==
  /\ fn = "none" /\ arg \in MarkupInputs /\ ret = None
  /\ IdleSkills /\ IdleClean

CallCleanText ==
  /\ fn = "none"
  /\ fn' = "clean_text"
  /\ ret' = clean_text(arg)
  /\ UNCHANGED <<featVars, arg, skillVars, cleanVars>>

NextCleanText == CallCleanText

SpecCleanText == InitCleanText /\ [][NextCleanText]_vars

----------------------------------------------------------------------------
(* C13 *)

\* s from which every tag, "<" to the next ">" with something in between, is
\* blanked out; written on the positions of s
InTag(s, i) ==
  \E a \in 1..i : \E b \in i..Len(s) :
    /\ s[a] = "<" /\ s[b] = ">" /\ b > a + 1
    /\ \A k \in (a + 1)..(b - 1) : s[k] # ">"
    /\ \A a2 \in 1..(a - 1) :
         ~(s[a2] = "<" /\ a2 + 1 < b /\ \A k \in (a2 + 1)..(a - 1) : s[k] # ">")

WithoutMarkup(s) == [i \in DOMAIN s |-> IF InTag(s, i) THEN " " ELSE s[i]]

\* the text of s outside markup, its whitespace runs collapsed, trimmed
CleanedText(s) == Join(SplitWS(WithoutMarkup(s)), <<" ">>)

\* C13: clean_text returns null only for null input; for every non-null string,
\* the empty string and a string of markup or whitespace only included, it
\* returns a string, markup stripped and whitespace collapsed.
C13_NullOnlyForNull ==
  fn = "clean_text" =>
    /\ ret.some <=> arg.some
    /\ arg.some => ret = Some(CleanedText(arg.v))

\* C13 for the descriptions that are not empty
C13_NonEmptyGivesString ==
  (fn = "clean_text" /\ arg.some /\ arg.v # <<>>) => ret = Some(CleanedText(arg.v))

\* a description of markup only has been cleaned to the empty string
C13_MarkupOnly ==
  fn = "clean_text" /\ arg = Some(<<"<","b",">"," ","<","b",">">>) /\ ret = Some(<<>>)

----------------------------------------------------------------------------
(* Every text function applied to a missing or empty text *)

EmptyInputs == {None, Some(<<>>)}

InitEmpty ==
  /\ fn = "none" /\ arg \in EmptyInputs /\ ret = None
  /\ skills_cfg \in SkillConfigs /\ load = "init" /\ compiled = <<>>
  /\ IdleClean

\* a call of one function of extract_features, the import done
CallOnEmpty(name, result) ==
  /\ load = "loaded" /\ fn = "none"
  /\ fn' = name
  /\ ret' = result
  /\ UNCHANGED <<featVars, arg, skillVars, cleanVars>>

NormalizeEmpty == CallOnEmpty("normalize_text", normalize_text(arg))
ClassifyEmpty == CallOnEmpty("classify_role_family", classify_role_family(arg))
SeniorityEmpty == CallOnEmpty("infer_seniority", infer_seniority(arg))
RemoteEmpty == CallOnEmpty("infer_remote", infer_remote(arg))
YearsEmpty == CallOnEmpty("extract_years_experience", extract_years_experience(arg))
SkillsEmpty == CallOnEmpty("extract_skills", extract_skills(compiled, arg))
BaselineEmpty == CallOnEmpty("baseline_skills_for_role", baseline_skills_for_role(arg))

\* clean_transform does not import the skills configuration
ParseEmpty ==
  /\ fn = "none"
  /\ fn' = "parse_city_state"
  /\ ret' = parse_city_state(arg)
  /\ UNCHANGED <<featVars, arg, skillVars, cleanVars>>

NextEmpty ==
  \/ LoadSkillsRaises \/ LoadSkills
  \/ NormalizeEmpty \/ ClassifyEmpty \/ SeniorityEmpty \/ RemoteEmpty
  \/ YearsEmpty \/ SkillsEmpty \/ BaselineEmpty \/ ParseEmpty

SpecEmpty == InitEmpty /\ [][NextEmpty]_vars

----------------------------------------------------------------------------
(* C14 *)

IsEmptyInput == ~arg.some \/ arg.v = <<>>

\* the empty results of the functions that do not use the skills dictionary
EmptyResults ==
  /\ fn = "normalize_text" => ret = <<>>
  /\ fn = "classify_role_family" => ret = "Other"
  /\ fn = "infer_seniority" => ret = "Mid"
  /\ fn = "infer_remote" => ret = FALSE
  /\ fn = "extract_years_experience" => ret = None
  /\ fn = "baseline_skills_for_role" => ret = <<>>
  /\ fn = "parse_city_state" => ret = [city |-> None, state |-> None]

\* C14: on null and on empty input every text function returns its empty result:
\* normalize_text the empty string, classify_role_family Other, infer_seniority
\* Mid, infer_remote false, extract_years_experience null, extract_skills two
\* empty lists, baseline_skills_for_role the empty list, parse_city_state
\* (null, null).
C14_EmptyInEmptyOut ==
  IsEmptyInput =>
    /\ EmptyResults
    /\ fn = "extract_skills" => ret = [found |-> <<>>, top |-> <<>>]

\* C14 without extract_skills
C14_EmptyResults ==
  IsEmptyInput => EmptyResults

\* C14 for extract_skills when every matcher has at least one alias
C14_NoSkillsInEmptyText ==
  (IsEmptyInput /\ fn = "extract_skills" /\ \A k \in DOMAIN compiled : compiled[k].rx # <<>>)
    => ret = [found |-> <<>>, top |-> <<>>]

\* extract_skills has been applied to null with a dictionary that has matchers
C14_SkillsOfNull ==
  /\ fn = "extract_skills" /\ arg = None /\ compiled # <<>>
  /\ ret = [found |-> <<>>, top |-> <<>>]

----------------------------------------------------------------------------
(* C15 *)

\* the entry has an alias that is not empty and not whitespace only
HasAlias(e) ==
  /\ e.aliases.kind \in {"list", "str"}
  /\ \E i \in DOMAIN e.aliases.items : Strip(e.aliases.items[i]) # <<>>

CanonicalNames(entries) == [i \in DOMAIN entries |-> Lower(Strip(entries[i].canonical))]

MatcherNames == [k \in DOMAIN compiled |-> compiled[k].canonical]

\* C15: a skill whose alias list has no non-empty alias (null, an empty list, a
\* list of empty or whitespace-only strings) gets no matcher and is never in the
\* result of extract_skills; only skills with a non-empty alias are reported.
C15_NoAliasNoMatcher ==
  load = "loaded" =>
    /\ MatcherNames = CanonicalNames(SelectSeq(skills_cfg.items, HasAlias))
    /\ fn = "extract_skills" =>
         \A i \in DOMAIN ret.found :
           \E j \in DOMAIN skills_cfg.items :
             HasAlias(skills_cfg.items[j]) /\ ret.found[i] = CanonicalNames(skills_cfg.items)[j]

\* C15 for null and the empty list: the skills that line 37 skips
C15_FalsyAliasesSkipped ==
  load = "loaded" =>
    MatcherNames = CanonicalNames(SelectSeq(skills_cfg.items, LAMBDA e : ~NoAliasGiven(e.aliases)))

\* a mapping with a skill of no aliases and a skill with one has been compiled
C15_Skipped ==
  /\ load = "loaded"
  /\ \E i, j \in DOMAIN skills_cfg.items :
       NoAliasGiven(skills_cfg.items[i].aliases) /\ HasAlias(skills_cfg.items[j])
  /\ Len(compiled) = 1

----------------------------------------------------------------------------
(* extract_features.main *)

\* a row of job_postings_clean; the columns of the SELECT of line 142
Posting(job_id, p) ==
  [ job_id |-> job_id, title |-> p.title, city |-> p.city, state |-> p.state,
    location_raw |-> p.location_raw, description_clean |-> p.description_clean ]

\* lines 154-183: the feature record of one posting
feature_record(r, at, matchers) ==
  LET title == OrEmpty(r.title)
      desc == OrEmpty(r.description_clean)
      loc_raw == OrEmpty(r.location_raw)
      blob == title \o <<"\n">> \o loc_raw \o <<"\n">> \o desc
      role_family == classify_role_family(Some(title))
      skills == extract_skills(matchers, Some(blob))
  IN  [ job_id |-> r.job_id,
        extracted_at |-> at,
        state |-> r.state,
        city |-> r.city,
        role_family |-> role_family,
        seniority |-> infer_seniority(Some(title)),
        is_remote |-> infer_remote(Some(blob)),
        years_experience_min |-> extract_years_experience(Some(blob)),
        skills |-> skills.found,
        skills_count |-> Len(skills.found),
        top_skills |-> skills.top,
        has_explicit_skills |-> Len(skills.found) > 0,
        role_baseline_skills |-> baseline_skills_for_role(Some(RoleFamilyName[role_family])) ]

\* ON CONFLICT (job_id) DO UPDATE SET of lines 196-208, skills left out
OnConflict_keep_skills(old, excluded) ==
  [ old EXCEPT !.extracted_at = excluded.extracted_at,
               !.state = excluded.state,
               !.city = excluded.city,
               !.role_family = excluded.role_family,
               !.seniority = excluded.seniority,
               !.is_remote = excluded.is_remote,
               !.years_experience_min = excluded.years_experience_min,
               !.skills_count = excluded.skills_count,
               !.top_skills = excluded.top_skills,
               !.has_explicit_skills = excluded.has_explicit_skills,
               !.role_baseline_skills = excluded.role_baseline_skills ]

\* ON CONFLICT (job_id) DO UPDATE SET, lines 196-208
OnConflict(old, excluded) ==
  [ old EXCEPT !.extracted_at = excluded.extracted_at,
               !.state = excluded.state,
               !.city = excluded.city,
               !.role_family = excluded.role_family,
               !.seniority = excluded.seniority,
               !.is_remote = excluded.is_remote,
               !.years_experience_min = excluded.years_experience_min,
               !.skills = excluded.skills,
               !.skills_count = excluded.skills_count,
               !.top_skills = excluded.top_skills,
               !.has_explicit_skills = excluded.has_explicit_skills,
               !.role_baseline_skills = excluded.role_baseline_skills ]

\* conn.execute(upsert_sql, out): one INSERT ... ON CONFLICT per record, in order
RECURSIVE UpsertFeatures(_, _)
UpsertFeatures(table, batch) ==
  IF batch = <<>> THEN table
  ELSE LET e == Head(batch)
           inserted == [j \in DOMAIN table \cup {e.job_id} |->
                          IF j = e.job_id
                            THEN (IF j \in DOMAIN table THEN OnConflict(table[j], e) ELSE e)
                            ELSE table[j]]
       IN  UpsertFeatures(inserted, Tail(batch))

----------------------------------------------------------------------------
(* Feature extraction runs over a table of cleaned postings *)

\* job ids 1..MaxPostings
MaxPostings == 2
PostingIds == 1..MaxPostings

\* at most MaxRuns runs of extract_features.main
MaxRuns == 3

\* the contents of a cleaned posting
PostingInputs ==
  { [ title |-> Some(<<"S","r","."," ","M","L"," ","D","e","v">>), location_raw |-> Some(<<"A","u","s","t","i","n",","," ","T","X">>),
      description_clean |-> Some(<<"W","F","H",","," ","5","+"," ","y","r","s"," ","J","a","v","a">>),
      city |-> Some(<<"A","u","s","t","i","n">>), state |-> Some(<<"T","e","x","a","s">>) ],
    [ title |-> None, location_raw |-> None, description_clean |-> None,
      city |-> None, state |-> None ] }

PostingTables ==
  UNION {{[j \in ids |-> Posting(j, t[j])] : t \in [ids -> PostingInputs]} : ids \in SUBSET PostingIds}

\* the skills mappings of the runs: two skills, a skill of blank aliases, nothing
FeatureConfigs ==
  { SkillsDict(<<Skill(<<"J","a","v","a">>, AliasList(<<<<"j","a","v","a">>>>)),
                 Skill(<<"p","o","w","e","r"," ","b","i">>, AliasList(<<<<" ","P","o","w","e","r"," ","B","I">>, <<"p","b","i">>>>))>>),
    SkillsDict(<<Skill(<<"b","l","a","n","k">>, AliasList(<<<<" ">>>>))>>),
    SkillsDict(<<>>) }

\* a row that an earlier run wrote, from another text and another dictionary
StaleRow(job_id) ==
  [ job_id |-> job_id, extracted_at |-> 0,
    state |-> Some(<<"O","h","i","o">>), city |-> Some(<<"C","o","l","u","m","b","u","s">>),
    role_family |-> "Analytics", seniority |-> "Entry", is_remote |-> TRUE,
    years_experience_min |-> Some(9),
    skills |-> <<<<"c","o","b","o","l">>>>, skills_count |-> 1, top_skills |-> <<<<"c","o","b","o","l">>>>,
    has_explicit_skills |-> TRUE, role_baseline_skills |-> <<<<"s","q","l">>, <<"e","x","c","e","l">>>> ]

InitFeatures ==
  /\ fn = "none" /\ arg = None /\ ret = None
  /\ skills_cfg \in FeatureConfigs /\ load = "init" /\ compiled = <<>>
  /\ raw_job_postings = EmptyTable
  /\ job_postings_clean \in PostingTables
  /\ pc = "idle" /\ raw_rows = <<>> /\ cleaned = <<>>
  /\ job_postings_features \in
       UNION {{[j \in ids |-> StaleRow(j)]} : ids \in SUBSET DOMAIN job_postings_clean}
  /\ fpc = "idle" /\ rows = <<>> /\ out = <<>> /\ extracted_at = 0 /\ last_done = 0

\* lines 136-152: the timestamp of the run, the SELECT, out = []
FeaturesSelect ==
  /\ load = "loaded" /\ fpc = "idle" /\ extracted_at < MaxRuns
  /\ extracted_at' = extracted_at + 1
  /\ rows' \in Selects(job_postings_clean)
  /\ out' = <<>>
  /\ fpc' = "loop"
  /\ UNCHANGED <<callVars, skillVars, cleanVars, job_postings_features, last_done>>

FeaturesRecord_write_through ==
  /\ fpc = "loop" /\ Len(out) < Len(rows)
  /\ out' = Append(out, feature_record(rows[Len(out) + 1], extracted_at, compiled))
  /\ job_postings_features' =
       UpsertFeatures(job_postings_features,
                      <<feature_record(rows[Len(out) + 1], extracted_at, compiled)>>)
  /\ UNCHANGED <<callVars, skillVars, cleanVars, fpc, rows, extracted_at, last_done>>

\* lines 153-183: one pass of the loop
FeaturesRecord ==
  /\ fpc = "loop" /\ Len(out) < Len(rows)
  /\ out' = Append(out, feature_record(rows[Len(out) + 1], extracted_at, compiled))
  /\ UNCHANGED <<callVars, skillVars, cleanVars, job_postings_features, fpc, rows,
                 extracted_at, last_done>>

\* an exception in a pass of the loop leaves main: line 212 is not reached
FeaturesRecordRaises ==
  /\ fpc = "loop" /\ Len(out) < Len(rows)
  /\ fpc' = "idle" /\ rows' = <<>> /\ out' = <<>>
  /\ UNCHANGED <<callVars, skillVars, cleanVars, job_postings_features, extracted_at, last_done>>

\* lines 211-214: the loop is over; one transaction upserts out, then [DONE]
FeaturesUpsert ==
  /\ fpc = "loop" /\ Len(out) = Len(rows)
  /\ job_postings_features' = UpsertFeatures(job_postings_features, out)
  /\ last_done' = extracted_at
  /\ fpc' = "idle" /\ rows' = <<>> /\ out' = <<>>
  /\ UNCHANGED <<callVars, skillVars, cleanVars, extracted_at>>

\* lines 211-212: the transaction fails and is rolled back, the exception leaves main
FeaturesUpsertRaises ==
  /\ fpc = "loop" /\ Len(out) = Len(rows)
  /\ fpc' = "idle" /\ rows' = <<>> /\ out' = <<>>
  /\ UNCHANGED <<callVars, skillVars, cleanVars, job_postings_features, extracted_at, last_done>>

NextFeatures ==
  \/ LoadSkillsRaises \/ LoadSkills
  \/ FeaturesSelect \/ FeaturesRecord \/ FeaturesRecordRaises
  \/ FeaturesUpsert \/ FeaturesUpsertRaises

SpecFeatures == InitFeatures /\ [][NextFeatures]_vars

----------------------------------------------------------------------------
(* C16 *)

\* the derived fields of a feature row: all but the extraction timestamp
Derived(row) == [row EXCEPT !.extracted_at = 0]

\* the table a single run over job_postings_clean writes into an empty table
SingleRun ==
  [j \in DOMAIN job_postings_clean |-> feature_record(job_postings_clean[j], 1, compiled)]

----------------------------------------------------------------------------
(* C17 *)

\* C17: a run never emits a partial record: every record accumulated and every
\* row written by a run has all its fields computed from one posting by all the
\* stages, and a run that raises writes no record of its batch; the rows a run
\* writes are written together, after the loop.
C17_NoPartialRecord ==
  /\ \A i \in DOMAIN out : out[i] = feature_record(rows[i], extracted_at, compiled)
  /\ \A j \in DOMAIN job_postings_features :
       /\ job_postings_features[j].extracted_at \in {0, last_done}
       /\ job_postings_features[j].extracted_at >= 1 =>
            job_postings_features[j] =
              feature_record(job_postings_clean[j], job_postings_features[j].extracted_at, compiled)
  /\ last_done >= 1 =>
       \A j \in DOMAIN job_postings_clean :
         j \in DOMAIN job_postings_features /\ job_postings_features[j].extracted_at = last_done

\* a run over two postings has raised after its first record, and the table
\* holds no row of it
C17_Witness ==
  /\ fpc = "idle" /\ extracted_at = 1 /\ last_done = 0
  /\ Cardinality(DOMAIN job_postings_clean) = 2
  /\ \A j \in DOMAIN job_postings_features : job_postings_features[j].extracted_at = 0

====
